---- MODULE Spec2Model ----
(***************************************************************************)
(* Model of habr.py: the asynchronous scraper of a company's article       *)
(* listing.  Strings are sequences of tokens: a token is one character     *)
(* ("/", ":", "3", ...) or one word without delimiters ("companies").      *)
(***************************************************************************)
EXTENDS Integers, Sequences, FiniteSets, TLC

\* ------------------------------------------------------------------ bounds
MaxPages == 3        \* largest page number the pagination block may name
MaxBlocks == 2       \* article containers per listing page
MaxListLen == 3      \* containers on the page of the extractor specification
MaxPieces == 4       \* path pieces of the raw links given to the normalizer

\* ------------------------------------------------------------ text helpers
NBSP == "nbsp"       \* the one-character string "\xa0"

IsSpace(c) == c \in {" ", NBSP}

RECURSIVE LStrip(_)
LStrip(s) == IF s = <<>> THEN s
             ELSE IF IsSpace(Head(s)) THEN LStrip(Tail(s)) ELSE s

RECURSIVE RStrip(_)
RStrip(s) == IF s = <<>> THEN s
             ELSE IF IsSpace(s[Len(s)]) THEN RStrip(SubSeq(s, 1, Len(s) - 1)) ELSE s

\* str.strip()
Strip(s) == RStrip(LStrip(s))

\* s[:n]
Take(s, n) == SubSeq(s, 1, IF Len(s) < n THEN Len(s) ELSE n)

\* s[n:]  (n characters dropped)
Drop(s, n) == IF n >= Len(s) THEN <<>> ELSE SubSeq(s, n + 1, Len(s))

\* str.find(c): the first index holding a token of cs, 0 when there is none
RECURSIVE FindFrom(_, _, _)
FindFrom(s, cs, i) == IF i > Len(s) THEN 0
                      ELSE IF s[i] \in cs THEN i ELSE FindFrom(s, cs, i + 1)

Find(s, c) == FindFrom(s, {c}, 1)

\* str.replace(old, new) for a one-character old
RECURSIVE Replace(_, _, _)
Replace(s, old, new) == IF s = <<>> THEN <<>>
                        ELSE (IF Head(s) = old THEN new ELSE <<Head(s)>>)
                             \o Replace(Tail(s), old, new)

Digits == {"0", "1", "2", "3", "4", "5", "6", "7", "8", "9"}

DigitVal(c) == CASE c = "0" -> 0 [] c = "1" -> 1 [] c = "2" -> 2 [] c = "3" -> 3
                 [] c = "4" -> 4 [] c = "5" -> 5 [] c = "6" -> 6 [] c = "7" -> 7
                 [] c = "8" -> 8 [] c = "9" -> 9

DigitChar(n) == CASE n = 0 -> "0" [] n = 1 -> "1" [] n = 2 -> "2" [] n = 3 -> "3"
                  [] n = 4 -> "4" [] n = 5 -> "5" [] n = 6 -> "6" [] n = 7 -> "7"
                  [] n = 8 -> "8" [] n = 9 -> "9"

AllDigits(s) == s # <<>> /\ \A i \in 1..Len(s) : s[i] \in Digits

RECURSIVE DecVal(_)
DecVal(s) == IF s = <<>> THEN 0 ELSE 10 * DecVal(SubSeq(s, 1, Len(s) - 1)) + DigitVal(s[Len(s)])

\* str(n) of a non-negative integer
RECURSIVE IntToStr(_)
IntToStr(n) == IF n < 10 THEN <<DigitChar(n)>>
               ELSE IntToStr(n \div 10) \o <<DigitChar(n % 10)>>

NA == <<"N", "/", "A">>

BASE_URL == <<"https", ":", "/", "/", "habr.com">>

\* --------------------------------------------------------- format_number
format_number(text) ==
    IF text = <<>> THEN NA
    ELSE Replace(Strip(text), NBSP, <<" ">>)

\* ---------------------------------------------- datetime.fromisoformat
\* The extended ISO-8601 form: YYYY-MM-DD, then nothing or one separator
\* character followed by HH[:MM[:SS]] and an optional +HH:MM / -HH:MM.
TwoDigits(s, i) == Len(s) >= i + 1 /\ s[i] \in Digits /\ s[i + 1] \in Digits

Num2(s, i) == 10 * DigitVal(s[i]) + DigitVal(s[i + 1])

IsoDateOk(s) ==
    /\ Len(s) >= 10
    /\ \A i \in {1, 2, 3, 4} : s[i] \in Digits
    /\ s[5] = "-" /\ TwoDigits(s, 6) /\ s[8] = "-" /\ TwoDigits(s, 9)
    /\ DecVal(SubSeq(s, 1, 4)) >= 1
    /\ Num2(s, 6) \in 1..12
    /\ Num2(s, 9) \in 1..31

IsoTzOk(t) ==
    \/ t = <<>>
    \/ /\ Len(t) = 6 /\ t[1] \in {"+", "-"}
       /\ TwoDigits(t, 2) /\ t[4] = ":" /\ TwoDigits(t, 5)
       /\ Num2(t, 2) < 24 /\ Num2(t, 5) < 60

\* t is what follows the separator; the result is the length of HH[:MM[:SS]]
\* or 0 when t does not start with a clock time
IsoClockLen(t) ==
    IF ~(TwoDigits(t, 1) /\ Num2(t, 1) < 24) THEN 0
    ELSE IF ~(Len(t) >= 3 /\ t[3] = ":") THEN 2
    ELSE IF ~(TwoDigits(t, 4) /\ Num2(t, 4) < 60) THEN 0
    ELSE IF ~(Len(t) >= 6 /\ t[6] = ":") THEN 5
    ELSE IF ~(TwoDigits(t, 7) /\ Num2(t, 7) < 60) THEN 0
    ELSE 8

fromisoformat(s) ==
    IF ~IsoDateOk(s) THEN [ok |-> FALSE, date |-> <<>>, time |-> <<>>]
    ELSE IF Len(s) = 10
         THEN [ok |-> TRUE, date |-> SubSeq(s, 1, 10), time |-> <<"0", "0", ":", "0", "0">>]
    ELSE LET t == Drop(s, 11)
             n == IsoClockLen(t)
         IN IF n = 0 \/ ~IsoTzOk(Drop(t, n))
            THEN [ok |-> FALSE, date |-> <<>>, time |-> <<>>]
            ELSE [ok |-> TRUE,
                  date |-> SubSeq(s, 1, 10),
                  \* strftime("%H:%M"): the minutes are 00 when only HH is given
                  time |-> IF n = 2 THEN SubSeq(t, 1, 2) \o <<":", "0", "0">>
                           ELSE SubSeq(t, 1, 5)]

\* iso.split("T")[1][:5]; raises IndexError (ok = FALSE) when iso has no "T"
SplitT1(iso) ==
    LET i == Find(iso, "T")
    IN IF i = 0 THEN [ok |-> FALSE, val |-> <<>>]
       ELSE LET rest == Drop(iso, i)
                j == Find(rest, "T")
            IN [ok |-> TRUE,
                val |-> Take(IF j = 0 THEN rest ELSE SubSeq(rest, 1, j - 1), 5)]

\* ------------------------------------------------- parse_article_block
\* An article container is a record of the elements the extractor looks up:
\*   title_element  [present, span, text]      h2 and its inner span
\*   link_element   [present, href]            href = <<>>: no href attribute
\*   author_element [present, a_user, text]
\*   time_element   [present, datetime]        datetime = <<>>: no attribute
\*   views          [present, vv, title, text]
\*   votes          [present, vm, text]
\*   comments       [present, span_val, text]
\*   bookmarks      [present, counter_span, text, title]
\*   malformed      processing this container raises an exception
Fields == {"url", "title", "author", "date", "time", "votes", "comments",
           "bookmarks", "views"}

title_of(b) ==
    IF b.title_element.present /\ b.title_element.span
    THEN Strip(b.title_element.text) ELSE NA

url_of(b) ==
    IF b.link_element.present /\ b.link_element.href # <<>>
    THEN BASE_URL \o b.link_element.href ELSE NA

author_of(b) ==
    IF b.author_element.present /\ b.author_element.a_user
    THEN Strip(b.author_element.text) ELSE NA

HasDatetime(b) == b.time_element.present /\ b.time_element.datetime # <<>>

date_of(b) ==
    IF ~HasDatetime(b) THEN NA
    ELSE LET iso == Strip(b.time_element.datetime)
             dt == fromisoformat(Replace(iso, "Z", <<"+", "0", "0", ":", "0", "0">>))
         IN IF dt.ok THEN dt.date ELSE Take(iso, 10)

time_of(b) ==
    IF ~HasDatetime(b) THEN NA
    ELSE LET iso == Strip(b.time_element.datetime)
             dt == fromisoformat(Replace(iso, "Z", <<"+", "0", "0", ":", "0", "0">>))
         IN IF dt.ok THEN dt.time
            ELSE IF SplitT1(iso).ok THEN SplitT1(iso).val ELSE NA

views_of(b) ==
    IF b.views.present /\ b.views.vv
    THEN format_number(IF b.views.title # <<>> THEN b.views.title ELSE b.views.text)
    ELSE NA

\* Faulty variant: the votes meter is looked up inside the views counter
votes_of_nested(b) ==
    IF b.views.present /\ b.votes.present /\ b.votes.vm /\ b.votes.text # <<>>
    THEN Strip(b.votes.text) ELSE NA

votes_of(b) ==
    IF b.votes.present /\ b.votes.vm /\ b.votes.text # <<>>
    THEN Strip(b.votes.text) ELSE NA

comments_of(b) ==
    IF b.comments.present /\ b.comments.span_val /\ b.comments.text # <<>>
    THEN Strip(b.comments.text) ELSE NA

bookmarks_of(b) ==
    IF b.bookmarks.present /\ b.bookmarks.counter_span
    THEN LET text_val == IF b.bookmarks.text # <<>> THEN Strip(b.bookmarks.text) ELSE <<>>
             title_val == Strip(b.bookmarks.title)
         IN format_number(IF text_val # <<>> THEN text_val ELSE title_val)
    ELSE NA

parse_article_block(b) ==
    [url |-> url_of(b), title |-> title_of(b), author |-> author_of(b),
     date |-> date_of(b), time |-> time_of(b), votes |-> votes_of(b),
     comments |-> comments_of(b), bookmarks |-> bookmarks_of(b),
     views |-> views_of(b)]

\* ------------------------------------------------- parse_articles_list
\* One iteration of the loop: the try/except around parse_article_block.
\* A step yields the results so far and whether an exception left the loop.
ListStepNoCatch(results, block) ==
    IF block.malformed THEN [raised |-> TRUE, results |-> results]
    ELSE [raised |-> FALSE, results |-> Append(results, parse_article_block(block))]

ListStep(results, block) ==
    IF block.malformed THEN [raised |-> FALSE, results |-> results]
    ELSE [raised |-> FALSE, results |-> Append(results, parse_article_block(block))]

RECURSIVE ListLoop(_, _)
ListLoop(results, blocks) ==
    IF blocks = <<>> THEN [raised |-> FALSE, results |-> results]
    ELSE LET st == ListStep(results, Head(blocks))
         IN IF st.raised THEN st ELSE ListLoop(st.results, Tail(blocks))

parse_articles_list(html) == ListLoop(<<>>, html.blocks)

\* ------------------------------------------------------ urllib.parse
\* Tokens of a link: the delimiters, and words made of scheme characters.
Delims == {"/", ":", "?", "#", ";", " ", NBSP}

SchemeChar(c) == c \notin Delims

AlphaStart(c) == c \notin Delims \cup Digits \cup {"+", "-", "."}

LowerTok(c) == IF c = "HTTPS" THEN "https" ELSE c

Lower(s) == [i \in 1..Len(s) |-> LowerTok(s[i])]

uses_params == {<<>>, <<"ftp">>, <<"http">>, <<"https">>, <<"sftp">>}

\* urlsplit, first step: the scheme is what precedes the first ":" when the
\* link starts with a letter and only scheme characters precede the ":"
SchemeAt(url, i) ==
    IF i > 1 /\ AlphaStart(url[1]) /\ (\A k \in 1..(i - 1) : SchemeChar(url[k]))
    THEN [scheme |-> Lower(SubSeq(url, 1, i - 1)), netloc |-> <<>>, rest |-> Drop(url, i)]
    ELSE [scheme |-> <<>>, netloc |-> <<>>, rest |-> url]

SplitScheme(url) == SchemeAt(url, Find(url, ":"))

\* urlsplit, second step: after "//" the netloc runs to the first of / ? #
NetlocAt(r, d) ==
    IF d = 0 THEN [scheme |-> r.scheme, netloc |-> Drop(r.rest, 2), rest |-> <<>>]
    ELSE [scheme |-> r.scheme, netloc |-> SubSeq(r.rest, 3, d - 1), rest |-> Drop(r.rest, d - 1)]

SplitNetloc(r) ==
    IF Len(r.rest) >= 2 /\ r.rest[1] = "/" /\ r.rest[2] = "/"
    THEN NetlocAt(r, FindFrom(r.rest, {"/", "?", "#"}, 3))
    ELSE r

\* url.split(c, 1): what precedes and what follows the first c at index i
CutAt(u, i) ==
    IF i = 0 THEN [head |-> u, tail |-> <<>>]
    ELSE [head |-> SubSeq(u, 1, i - 1), tail |-> Drop(u, i)]

Cut(u, c) == CutAt(u, Find(u, c))

\* urlsplit, last steps: the fragment is cut first, then the query
QueryOf(r, fr, qu) ==
    [scheme |-> r.scheme, netloc |-> r.netloc, path |-> qu.head,
     query |-> qu.tail, fragment |-> fr.tail]

FragmentOf(r, fr) == QueryOf(r, fr, Cut(fr.head, "?"))

SplitFragmentQuery(r) == FragmentOf(r, Cut(r.rest, "#"))

\* urlsplit: scheme, then //netloc, then #fragment, then ?query
urlsplit(url) == SplitFragmentQuery(SplitNetloc(SplitScheme(url)))

\* str.rfind("/"), 0 when there is none
RECURSIVE RFind(_, _, _)
RFind(s, c, i) == IF i = 0 THEN 0 ELSE IF s[i] = c THEN i ELSE RFind(s, c, i - 1)

\* _splitparams: the first ";" of the last path segment, 0 when there is none
ParamsAt(path, r) == FindFrom(path, {";"}, IF r = 0 THEN 1 ELSE r)

ParamsCut(sp, i) ==
    IF sp.scheme \in uses_params /\ i # 0
    THEN [scheme |-> sp.scheme, netloc |-> sp.netloc, path |-> SubSeq(sp.path, 1, i - 1),
          params |-> Drop(sp.path, i), query |-> sp.query, fragment |-> sp.fragment]
    ELSE [scheme |-> sp.scheme, netloc |-> sp.netloc, path |-> sp.path,
          params |-> <<>>, query |-> sp.query, fragment |-> sp.fragment]

SplitParams(sp) == ParamsCut(sp, ParamsAt(sp.path, RFind(sp.path, "/", Len(sp.path))))

\* urlparse: urlsplit, then ;params cut from the last path segment
urlparse(url) == SplitParams(urlsplit(url))

\* urlunparse((scheme, netloc, path, "", "", "")) with a non-empty netloc
urlunparse(scheme, netloc, path) ==
    (IF scheme # <<>> THEN scheme \o <<":">> ELSE <<>>)
    \o <<"/", "/">> \o netloc
    \o (IF path # <<>> /\ path[1] # "/" THEN <<"/">> \o path ELSE path)

\* path.split("/"): the list of the segments, empty ones included
RECURSIVE SplitSlash(_)
SplitSlash(s) ==
    LET i == Find(s, "/")
    IN IF i = 0 THEN <<s>>
       ELSE <<SubSeq(s, 1, i - 1)>> \o SplitSlash(Drop(s, i))

\* "/".join(parts)
RECURSIVE JoinSlash(_)
JoinSlash(parts) ==
    IF parts = <<>> THEN <<>>
    ELSE IF Len(parts) = 1 THEN parts[1]
    ELSE parts[1] \o <<"/">> \o JoinSlash(Tail(parts))

NonEmpty(seg) == seg # <<>>

\* [p for p in path.split("/") if p]
CleanSegmentsNoFilter(path) == SplitSlash(path)

CleanSegments(path) == SelectSeq(SplitSlash(path), NonEmpty)

\* path.strip("/")
RECURSIVE StripSlash(_)
StripSlash(s) ==
    IF s = <<>> THEN s
    ELSE IF Head(s) = "/" THEN StripSlash(Tail(s))
    ELSE IF s[Len(s)] = "/" THEN StripSlash(SubSeq(s, 1, Len(s) - 1))
    ELSE s

EndsWithSlash(s) == s # <<>> /\ s[Len(s)] = "/"

ValueError == <<"ValueError">>

\* ------------------------------------ normalize_company_articles_url
ArticlesInParts(parts) == \E i \in 1..Len(parts) : parts[i] = <<"articles">>

\* path = "/" + "/".join([p for p in path.split("/") if p])
CleanPath(path) == <<"/">> \o JoinSlash(CleanSegments(path))

WithSlash(path) == IF ~EndsWithSlash(path) THEN path \o <<"/">> ELSE path

\* The branch on the 'companies' pattern, parts = path.strip("/").split("/")
BranchPath(path, parts) ==
    IF Len(parts) >= 3 /\ parts[2] = <<"companies">>
    THEN IF ~ArticlesInParts(parts)
         THEN <<"/">> \o JoinSlash(SubSeq(parts, 1, 3) \o <<<<"articles">>>>) \o <<"/">>
         ELSE WithSlash(path)
    ELSE WithSlash(path)

CompanyPath(path) == BranchPath(path, SplitSlash(StripSlash(path)))

Rebuild(parsed) ==
    urlunparse(IF parsed.scheme # <<>> THEN parsed.scheme ELSE <<"https">>,
               IF parsed.netloc # <<>> THEN parsed.netloc ELSE <<"habr.com">>,
               CompanyPath(CleanPath(IF parsed.path # <<>> THEN parsed.path ELSE <<"/">>)))

\* The body of the function after the check of the empty link
NormalizeNonEmpty(raw) == Rebuild(urlparse(Strip(raw)))

\* Faulty variant: the empty link is not rejected
normalize_unchecked(raw) == NormalizeNonEmpty(raw)

normalize_company_articles_url(raw) ==
    IF raw = <<>> THEN ValueError      \* if not raw_url: raise ValueError
    ELSE NormalizeNonEmpty(raw)

\* --------------------------------------------------------------- markup
\* An article container with every element present; its link names the
\* page p and the position i it was served at.
Txt(p, i) == IntToStr(p) \o <<"-">> \o IntToStr(i)

Art(p, i) ==
    [malformed |-> FALSE,
     title_element |-> [present |-> TRUE, span |-> TRUE, text |-> <<" ", "t">> \o Txt(p, i)],
     link_element |-> [present |-> TRUE, href |-> <<"/", "a">> \o Txt(p, i)],
     author_element |-> [present |-> TRUE, a_user |-> TRUE, text |-> <<"b", "o", "b">>],
     time_element |-> [present |-> TRUE,
                       datetime |-> <<"2", "0", "2", "4", "-", "0", "3", "-", "0", "5", "T",
                                      "1", "4", ":", "3", "0", ":", "0", "0", "Z">>],
     views |-> [present |-> TRUE, vv |-> TRUE, title |-> <<"1", NBSP, "2">>, text |-> <<"1", "K">>],
     votes |-> [present |-> TRUE, vm |-> TRUE, text |-> <<"+", "5">>],
     comments |-> [present |-> TRUE, span_val |-> TRUE, text |-> <<" ", "7", " ">>],
     bookmarks |-> [present |-> TRUE, counter_span |-> TRUE, text |-> <<"3">>, title |-> <<>>]]

\* A container whose processing raises
Broken(p, i) == [Art(p, i) EXCEPT !.malformed = TRUE]

NoPagination == [block |-> FALSE, links |-> <<>>]

\* The text "" of a response without a body
EmptyText == [empty |-> TRUE, pagination |-> NoPagination, blocks |-> <<>>]

\* The pagination block whose page links read 1..n, with the text of the last
\* link given
PageLinks(n, last) ==
    [block |-> TRUE,
     links |-> [k \in 1..n |-> IF k = n THEN last ELSE IntToStr(k)]]

Paginations ==
    {NoPagination, [block |-> TRUE, links |-> <<>>], PageLinks(2, <<"n", "e", "x", "t">>)}
    \cup {PageLinks(n, <<" ">> \o IntToStr(n) \o <<" ">>) : n \in 2..MaxPages}

\* The containers of page p: none, MaxBlocks sound ones, or MaxBlocks of
\* which the first is broken
BlockLists(p) ==
    {<<>>, [i \in 1..MaxBlocks |-> Art(p, i)],
     [i \in 1..MaxBlocks |-> IF i = 1 THEN Broken(p, i) ELSE Art(p, i)]}

Texts(p) ==
    {EmptyText}
    \cup {[empty |-> FALSE, pagination |-> pg, blocks |-> bl] :
             pg \in (IF p = 1 THEN Paginations ELSE {NoPagination}),
             bl \in BlockLists(p)}

\* ------------------------------------------------------------ fetch_html
\* What the network does with one request: the connection fails, the
\* request times out, or a response arrives with a status and a body that
\* can or cannot be read as text.
Response(st, rd, tx) == [kind |-> "response", status |-> st, readable |-> rd, text |-> tx]

NetErr == [kind |-> "neterr", status |-> 0, readable |-> FALSE, text |-> EmptyText]

Timeout == [kind |-> "timeout", status |-> 0, readable |-> FALSE, text |-> EmptyText]

Pending == [kind |-> "pending", status |-> 0, readable |-> FALSE, text |-> EmptyText]

FullText(p) == [empty |-> FALSE, pagination |-> NoPagination,
                blocks |-> [i \in 1..MaxBlocks |-> Art(p, i)]]

Outcomes(p) ==
    {NetErr, Timeout, Response(404, TRUE, FullText(p)), Response(200, FALSE, FullText(p)),
     Response(300, TRUE, FullText(p))}
    \cup {Response(200, TRUE, tx) : tx \in Texts(p)}

NoneResult == [kind |-> "None", text |-> EmptyText]

NoResult == [kind |-> "pending", text |-> EmptyText]

RaisedResult == [kind |-> "raise", text |-> EmptyText]

\* Faulty variant: the exceptions of session.get are not caught
fetch_html_uncaught(o) ==
    IF o.kind # "response" THEN RaisedResult
    ELSE IF o.status >= 400 THEN NoneResult
    ELSE IF ~o.readable THEN NoneResult
    ELSE [kind |-> "text", text |-> o.text]

\* Faulty variant: raise_for_status is not called
fetch_html_nostatus(o) ==
    IF o.kind # "response" THEN NoneResult
    ELSE IF ~o.readable THEN NoneResult
    ELSE [kind |-> "text", text |-> o.text]

fetch_html(o) ==
    IF o.kind # "response" THEN NoneResult        \* session.get raises
    ELSE IF o.status >= 400 THEN NoneResult       \* raise_for_status raises
    ELSE IF ~o.readable THEN NoneResult           \* resp.text() raises
    ELSE [kind |-> "text", text |-> o.text]

\* `if html:` -- neither None nor ""
Truthy(res) == res.kind = "text" /\ ~res.text.empty

\* ---------------------------------------------- parse_pagination_last_page
\* int(text): an optional sign and decimal digits
IntOk(t) == IF t # <<>> /\ t[1] \in {"+", "-"} THEN AllDigits(Tail(t)) ELSE AllDigits(t)

IntVal(t) == IF t[1] = "-" THEN 0 - DecVal(Tail(t))
             ELSE IF t[1] = "+" THEN DecVal(Tail(t)) ELSE DecVal(t)

parse_pagination_last_page(html) ==
    IF ~html.pagination.block THEN 1
    ELSE IF html.pagination.links = <<>> THEN 1
    ELSE LET t == Strip(html.pagination.links[Len(html.pagination.links)])
         IN IF IntOk(t) THEN IntVal(t) ELSE 1

\* f"{articles_url}page{page_num}/"
PageUrl(url, page_num) == url \o <<"page">> \o IntToStr(page_num) \o <<"/">>

\* ================================================================ state
VARIABLES
    \* main_async and scrape_company_articles
    link,             \* args.link
    pc,               \* position of the main coroutine
    articles_url,     \* the normalized listing address
    first_page_html,  \* result of the fetch of page 1
    last_page,        \* 0 until pagination detection has run
    rows,             \* the records aggregated so far
    tasks,            \* page numbers whose fetch coroutine has been created
    started,          \* pages 2..N whose request has been issued
    outcome,          \* page -> what the network did with its request
    result,           \* page -> what fetch_html returned
    pages_html,       \* the list returned by asyncio.gather
    idx,              \* index of the aggregation loop in pages_html
    requests,         \* the addresses requested, in order of issue
    completed,        \* pages 2..N in order of fetch completion
    extracted,        \* pages on which parse_articles_list has run, in order
    pauses,           \* number of asyncio.sleep calls made
    returned_rows,    \* the value scrape_company_articles returned
    report,           \* what main_async rendered and saved
    \* normalize_company_articles_url applied once and twice
    nz_pc, raw_url, once, twice,
    \* the profile address and the articles address of one company
    co_origin, co_lang, co_slug, co_profile, co_articles,
    \* parse_articles_list on one page
    ls_pc, ls_blocks, ls_i, ls_results,
    \* parse_article_block on one container, before and after an element is removed
    bk_pc, bk_block, bk_dropped, bk_before, bk_record

mainVars == <<link, pc, articles_url, first_page_html, last_page, rows, tasks, started,
              outcome, result, pages_html, idx, requests, completed, extracted, pauses,
              returned_rows, report>>

normVars == <<nz_pc, raw_url, once, twice>>

companyVars == <<co_origin, co_lang, co_slug, co_profile, co_articles>>

listVars == <<ls_pc, ls_blocks, ls_i, ls_results>>

blockVars == <<bk_pc, bk_block, bk_dropped, bk_before, bk_record>>

vars == <<mainVars, normVars, companyVars, listVars, blockVars>>

Unset == <<"unset">>

NoRecord == [f \in Fields |-> Unset]

NoReport == [saved |-> FALSE, rows |-> <<>>, source_url |-> Unset]

\* The rest position of the variables a specification does not use
MainIdle ==
    /\ link = <<>> /\ pc = "idle" /\ articles_url = Unset
    /\ first_page_html = NoResult /\ last_page = 0 /\ rows = <<>>
    /\ tasks = <<>> /\ started = {}
    /\ outcome = [p \in 1..MaxPages |-> Pending]
    /\ result = [p \in 1..MaxPages |-> NoResult]
    /\ pages_html = <<>> /\ idx = 0 /\ requests = <<>> /\ completed = <<>>
    /\ extracted = <<>> /\ pauses = 0 /\ returned_rows = <<>> /\ report = NoReport

NormIdle == nz_pc = "idle" /\ raw_url = <<>> /\ once = Unset /\ twice = Unset

CompanyIdle ==
    /\ co_origin = <<>> /\ co_lang = "idle" /\ co_slug = "idle"
    /\ co_profile = Unset /\ co_articles = Unset

ListIdle == ls_pc = "idle" /\ ls_blocks = <<>> /\ ls_i = 0 /\ ls_results = <<>>

BlockIdle ==
    /\ bk_pc = "idle" /\ bk_block = Art(1, 1) /\ bk_dropped = "none"
    /\ bk_before = NoRecord /\ bk_record = NoRecord

\* ============================================ main_async and the scrape
\* The links the command line may carry: none, or a company profile with a
\* doubled separator
Links ==
    {<<>>,
     <<"https", ":", "/", "/", "habr.com", "/", "ru", "/", "/", "companies", "/", "acme">>}

Init ==
    /\ link \in Links
    /\ pc = "main"
    /\ articles_url = Unset
    /\ first_page_html = NoResult /\ last_page = 0 /\ rows = <<>>
    /\ tasks = <<>> /\ started = {}
    /\ outcome = [p \in 1..MaxPages |-> Pending]
    /\ result = [p \in 1..MaxPages |-> NoResult]
    /\ pages_html = <<>> /\ idx = 0 /\ requests = <<>> /\ completed = <<>>
    /\ extracted = <<>> /\ pauses = 0 /\ returned_rows = <<>> /\ report = NoReport
    /\ NormIdle /\ CompanyIdle /\ ListIdle /\ BlockIdle

otherVars == <<normVars, companyVars, listVars, blockVars>>

\* main_async: parse_args, then normalize the link; a failure is printed
\* and main_async returns
NormalizeLink ==
    /\ pc = "main"
    /\ LET u == normalize_company_articles_url(link)
       IN IF u = ValueError
          THEN pc' = "norm_failed" /\ UNCHANGED articles_url
          ELSE pc' = "scrape" /\ articles_url' = u
    /\ UNCHANGED <<link, first_page_html, last_page, rows, tasks, started, outcome, result,
                   pages_html, idx, requests, completed, extracted, pauses, returned_rows,
                   report, otherVars>>

\* scrape_company_articles: open the session and request page 1
RequestFirstPage ==
    /\ pc = "scrape"
    /\ requests' = Append(requests, articles_url)
    /\ pc' = "await_first"
    /\ UNCHANGED <<link, articles_url, first_page_html, last_page, rows, tasks, started,
                   outcome, result, pages_html, idx, completed, extracted, pauses,
                   returned_rows, report, otherVars>>

\* await fetch_html(session, articles_url) resolves
FirstPageFetched ==
    /\ pc = "await_first"
    /\ \E o \in Outcomes(1) :
          /\ outcome' = [outcome EXCEPT ![1] = o]
          /\ result' = [result EXCEPT ![1] = fetch_html(o)]
          /\ first_page_html' = fetch_html(o)
          /\ pc' = IF fetch_html(o).kind = "raise" THEN "crashed" ELSE "check_first"
    /\ UNCHANGED <<link, articles_url, last_page, rows, tasks, started, pages_html, idx,
                   requests, completed, extracted, pauses, returned_rows, report, otherVars>>

\* Faulty variant: the scrape goes on without page 1
FirstPageCheckedNoAbort ==
    /\ pc = "check_first"
    /\ LET html == first_page_html.text
           lp == parse_pagination_last_page(html)
           parsed == parse_articles_list(html)
       IN /\ last_page' = lp
          /\ rows' = parsed.results
          /\ extracted' = Append(extracted, 1)
          /\ pc' = IF parsed.raised THEN "crashed"
                   ELSE IF lp > 1 THEN "build_tasks" ELSE "return"
          /\ UNCHANGED returned_rows
    /\ UNCHANGED <<link, articles_url, first_page_html, tasks, started, outcome, result,
                   pages_html, idx, requests, completed, pauses, report, otherVars>>

\* if not first_page_html: return []; else detect the last page and extract
\* the records of page 1
FirstPageChecked ==
    /\ pc = "check_first"
    /\ IF ~Truthy(first_page_html)
       THEN /\ returned_rows' = <<>>
            /\ pc' = "returned"
            /\ UNCHANGED <<last_page, rows, extracted>>
       ELSE LET html == first_page_html.text
                lp == parse_pagination_last_page(html)
                parsed == parse_articles_list(html)
            IN /\ last_page' = lp
               /\ rows' = parsed.results
               /\ extracted' = Append(extracted, 1)
               /\ pc' = IF parsed.raised THEN "crashed"
                        ELSE IF lp > 1 THEN "build_tasks" ELSE "return"
               /\ UNCHANGED returned_rows
    /\ UNCHANGED <<link, articles_url, first_page_html, tasks, started, outcome, result,
                   pages_html, idx, requests, completed, pauses, report, otherVars>>

\* One iteration of `for page_num in range(2, last_page + 1)`: the coroutine
\* of the page is created, not yet run
AppendTask ==
    /\ pc = "build_tasks"
    /\ Len(tasks) + 2 <= last_page
    /\ Len(tasks) + 2 <= MaxPages
    /\ tasks' = Append(tasks, Len(tasks) + 2)
    /\ UNCHANGED <<link, pc, articles_url, first_page_html, last_page, rows, started, outcome,
                   result, pages_html, idx, requests, completed, extracted, pauses,
                   returned_rows, report, otherVars>>

\* asyncio.gather(*tasks): every coroutine is scheduled and the scrape
\* suspends
Gather ==
    /\ pc = "build_tasks"
    /\ Len(tasks) + 2 > last_page
    /\ pc' = "gather"
    /\ UNCHANGED <<link, articles_url, first_page_html, last_page, rows, tasks, started,
                   outcome, result, pages_html, idx, requests, completed, extracted, pauses,
                   returned_rows, report, otherVars>>

\* Faulty variant: a fetch that failed is issued a second time
StartFetchRetrying(p) ==
    /\ pc = "gather"
    /\ p \in 2..last_page
    /\ \/ /\ p \notin started
          /\ \A q \in 2..(p - 1) : q \in started
          /\ UNCHANGED result
       \/ /\ p \in started /\ result[p] = NoneResult
          /\ Cardinality({k \in 1..Len(requests) :
                            requests[k] = PageUrl(articles_url, p)}) = 1
          /\ result' = [result EXCEPT ![p] = NoResult]
    /\ started' = started \cup {p}
    /\ requests' = Append(requests, PageUrl(articles_url, p))
    /\ UNCHANGED <<link, pc, articles_url, first_page_html, last_page, rows, tasks, outcome,
                   pages_html, idx, completed, extracted, pauses, returned_rows,
                   report, otherVars>>

\* The event loop runs the scheduled coroutines in the order of their
\* creation; each issues its request
StartFetch(p) ==
    /\ pc = "gather"
    /\ p \in 2..last_page /\ p \notin started
    /\ \A q \in 2..(p - 1) : q \in started
    /\ started' = started \cup {p}
    /\ requests' = Append(requests, PageUrl(articles_url, p))
    /\ UNCHANGED <<link, pc, articles_url, first_page_html, last_page, rows, tasks, outcome,
                   result, pages_html, idx, completed, extracted, pauses, returned_rows,
                   report, otherVars>>

\* The fetch of page p resolves, in any order among the running ones
CompleteFetch(p) ==
    /\ pc = "gather"
    /\ p \in started /\ result[p] = NoResult
    /\ \E o \in Outcomes(p) :
          /\ outcome' = [outcome EXCEPT ![p] = o]
          /\ result' = [result EXCEPT ![p] = fetch_html(o)]
          /\ pc' = IF fetch_html(o).kind = "raise" THEN "crashed" ELSE pc
    /\ completed' = Append(completed, p)
    /\ UNCHANGED <<link, articles_url, first_page_html, last_page, rows, tasks, started,
                   pages_html, idx, requests, extracted, pauses, returned_rows, report,
                   otherVars>>

AllResolved == \A p \in 2..last_page : result[p] # NoResult

\* Faulty variant: the scrape resumes at the first fetch that resolves
JoinFirstCompleted ==
    /\ pc = "gather"
    /\ \E p \in 2..last_page : result[p] # NoResult
    /\ pages_html' = [k \in 1..Len(tasks) |-> result[tasks[k]]]
    /\ idx' = 1
    /\ pc' = "aggregate"
    /\ UNCHANGED <<link, articles_url, first_page_html, last_page, rows, tasks, started,
                   outcome, result, requests, completed, extracted, pauses, returned_rows,
                   report, otherVars>>

\* Faulty variant: the results are taken in the order of completion
JoinInCompletionOrder ==
    /\ pc = "gather"
    /\ AllResolved
    /\ pages_html' = [k \in 1..Len(completed) |-> result[completed[k]]]
    /\ idx' = 1
    /\ pc' = "aggregate"
    /\ UNCHANGED <<link, articles_url, first_page_html, last_page, rows, tasks, started,
                   outcome, result, requests, completed, extracted, pauses, returned_rows,
                   report, otherVars>>

\* The gather resumes once every fetch has resolved; its list follows the
\* order of the tasks
Join ==
    /\ pc = "gather"
    /\ AllResolved
    /\ pages_html' = [k \in 1..Len(tasks) |-> result[tasks[k]]]
    /\ idx' = 1
    /\ pc' = "aggregate"
    /\ UNCHANGED <<link, articles_url, first_page_html, last_page, rows, tasks, started,
                   outcome, result, requests, completed, extracted, pauses, returned_rows,
                   report, otherVars>>

\* Faulty variant: the pause sits inside the "if html:" branch
ExtendRowsPauseInside ==
    /\ pc = "aggregate"
    /\ idx <= Len(pages_html)
    /\ IF Truthy(pages_html[idx])
       THEN LET parsed == parse_articles_list(pages_html[idx].text)
            IN /\ rows' = rows \o parsed.results
               /\ extracted' = Append(extracted, tasks[idx])
               /\ pc' = IF parsed.raised THEN "crashed" ELSE "sleep"
               /\ UNCHANGED idx
       ELSE idx' = idx + 1 /\ UNCHANGED <<pc, rows, extracted>>
    /\ UNCHANGED <<link, articles_url, first_page_html, last_page, tasks, started, outcome,
                   result, pages_html, requests, completed, pauses, returned_rows,
                   report, otherVars>>

\* Faulty variant: the rows of a page replace the rows so far
ExtendRowsReplacing ==
    /\ pc = "aggregate"
    /\ idx <= Len(pages_html)
    /\ IF Truthy(pages_html[idx])
       THEN LET parsed == parse_articles_list(pages_html[idx].text)
            IN /\ rows' = parsed.results
               /\ extracted' = Append(extracted, tasks[idx])
               /\ pc' = IF parsed.raised THEN "crashed" ELSE "sleep"
       ELSE pc' = "sleep" /\ UNCHANGED <<rows, extracted>>
    /\ UNCHANGED <<link, articles_url, first_page_html, last_page, tasks, started, outcome,
                   result, pages_html, idx, requests, completed, pauses, returned_rows,
                   report, otherVars>>

\* for html in pages_html: if html: rows.extend(parse_articles_list(html))
ExtendRows ==
    /\ pc = "aggregate"
    /\ idx <= Len(pages_html)
    /\ IF Truthy(pages_html[idx])
       THEN LET parsed == parse_articles_list(pages_html[idx].text)
            IN /\ rows' = rows \o parsed.results
               /\ extracted' = Append(extracted, tasks[idx])
               /\ pc' = IF parsed.raised THEN "crashed" ELSE "sleep"
       ELSE pc' = "sleep" /\ UNCHANGED <<rows, extracted>>
    /\ UNCHANGED <<link, articles_url, first_page_html, last_page, tasks, started, outcome,
                   result, pages_html, idx, requests, completed, pauses, returned_rows,
                   report, otherVars>>

\* await asyncio.sleep(0.01), the last statement of the loop body
Sleep ==
    /\ pc = "sleep"
    /\ pauses' = pauses + 1
    /\ idx' = idx + 1
    /\ pc' = "aggregate"
    /\ UNCHANGED <<link, articles_url, first_page_html, last_page, rows, tasks, started,
                   outcome, result, pages_html, requests, completed, extracted, returned_rows,
                   report, otherVars>>

\* return rows
Return ==
    /\ \/ pc = "return"
       \/ pc = "aggregate" /\ idx > Len(pages_html)
    /\ returned_rows' = rows
    /\ pc' = "returned"
    /\ UNCHANGED <<link, articles_url, first_page_html, last_page, rows, tasks, started,
                   outcome, result, pages_html, idx, requests, completed, extracted, pauses,
                   report, otherVars>>

\* main_async: render the rows and write the file
RenderAndSave ==
    /\ pc = "returned"
    /\ report' = [saved |-> TRUE, rows |-> returned_rows, source_url |-> articles_url]
    /\ pc' = "saved"
    /\ UNCHANGED <<link, articles_url, first_page_html, last_page, rows, tasks, started,
                   outcome, result, pages_html, idx, requests, completed, extracted, pauses,
                   returned_rows, otherVars>>

Next ==
    \/ NormalizeLink
    \/ RequestFirstPage
    \/ FirstPageFetched
    \/ FirstPageChecked
    \/ AppendTask
    \/ Gather
    \/ \E p \in 2..MaxPages : StartFetch(p)
    \/ \E p \in 2..MaxPages : CompleteFetch(p)
    \/ Join
    \/ ExtendRows
    \/ Sleep
    \/ Return
    \/ RenderAndSave

Spec == Init /\ [][Next]_vars

\* ============================ normalize_company_articles_url, iterated
\* Raw links: a prefix (nothing, a first relative segment, a scheme, a scheme
\* and host), a path of at most MaxPieces pieces, a suffix (nothing, params
\* with query and fragment, trailing white space)
Pieces == {<<"/">>, <<"/", "ru">>, <<"/", "companies">>, <<"/", "articles">>}

RECURSIVE Paths(_)
Paths(n) == IF n = 0 THEN {<<>>}
            ELSE Paths(n - 1) \cup {p \o q : p \in Paths(n - 1), q \in Pieces}

Prefixes == {<<>>, <<"ru">>, <<"http", ":">>, <<"HTTPS", ":", "/", "/", "habr.com">>}

Suffixes == {<<>>, <<";", "p", "?", "q", "#", "f">>, <<" ">>}

RawLinks == {a \o b \o c : a \in Prefixes, b \in Paths(MaxPieces), c \in Suffixes}

InitNormalize ==
    /\ raw_url \in RawLinks
    /\ nz_pc = "input" /\ once = Unset /\ twice = Unset
    /\ MainIdle /\ CompanyIdle /\ ListIdle /\ BlockIdle

NormalizeOnce ==
    /\ nz_pc = "input"
    /\ LET u == normalize_company_articles_url(raw_url)
       IN IF u = ValueError
          THEN nz_pc' = "error" /\ UNCHANGED once
          ELSE nz_pc' = "once" /\ once' = u
    /\ UNCHANGED <<raw_url, twice, mainVars, companyVars, listVars, blockVars>>

NormalizeTwice ==
    /\ nz_pc = "once"
    /\ LET u == normalize_company_articles_url(once)
       IN IF u = ValueError
          THEN nz_pc' = "error" /\ UNCHANGED twice
          ELSE nz_pc' = "twice" /\ twice' = u
    /\ UNCHANGED <<raw_url, once, mainVars, companyVars, listVars, blockVars>>

NextNormalize == NormalizeOnce \/ NormalizeTwice

SpecNormalize == InitNormalize /\ [][NextNormalize]_vars

\* ================== the profile address and the articles address, normalized
Origins == {<<>>, <<"https", ":", "/", "/", "habr.com">>, <<"/", "/", "habr.com">>,
            <<"HTTPS", ":", "/", "/", "habr.com">>}

Langs == {"ru", "en", "articles"}

Slugs == {"acme", "tantor", "articles", "companies"}

ProfileAddress(origin, lang, slug) ==
    origin \o <<"/", lang, "/", "companies", "/", slug, "/">>

ArticlesAddress(origin, lang, slug) ==
    origin \o <<"/", lang, "/", "companies", "/", slug, "/", "articles", "/">>

InitCompany ==
    /\ co_origin \in Origins /\ co_lang \in Langs /\ co_slug \in Slugs
    /\ co_profile = Unset /\ co_articles = Unset
    /\ MainIdle /\ NormIdle /\ ListIdle /\ BlockIdle

NormalizeProfile ==
    /\ co_profile = Unset
    /\ co_profile' = normalize_company_articles_url(ProfileAddress(co_origin, co_lang, co_slug))
    /\ UNCHANGED <<co_origin, co_lang, co_slug, co_articles, mainVars, normVars, listVars,
                   blockVars>>

NormalizeArticles ==
    /\ co_articles = Unset
    /\ co_articles' = normalize_company_articles_url(ArticlesAddress(co_origin, co_lang, co_slug))
    /\ UNCHANGED <<co_origin, co_lang, co_slug, co_profile, mainVars, normVars, listVars,
                   blockVars>>

NextCompany == NormalizeProfile \/ NormalizeArticles

SpecCompany == InitCompany /\ [][NextCompany]_vars

\* =========================================== parse_articles_list, stepwise
\* A container with some elements missing
Sparse(p, i) ==
    [Art(p, i) EXCEPT !.views = [present |-> FALSE, vv |-> FALSE, title |-> <<>>, text |-> <<>>],
                      !.time_element = [present |-> TRUE,
                                        datetime |-> <<"n", "o", "t", "-", "a", "-", "d", "a", "t", "e">>]]

RECURSIVE BlockSeqs(_)
BlockSeqs(n) ==
    IF n = 0 THEN {<<>>}
    ELSE BlockSeqs(n - 1)
         \cup {Append(bs, b) : bs \in {x \in BlockSeqs(n - 1) : Len(x) = n - 1},
                               b \in {Art(1, n), Sparse(1, n), Broken(1, n)}}

InitList ==
    /\ ls_blocks \in BlockSeqs(MaxListLen)
    /\ ls_pc = "loop" /\ ls_i = 1 /\ ls_results = <<>>
    /\ MainIdle /\ NormIdle /\ CompanyIdle /\ BlockIdle

\* for block in article_blocks: try ... except
ListIterate ==
    /\ ls_pc = "loop"
    /\ ls_i <= Len(ls_blocks)
    /\ LET st == ListStep(ls_results, ls_blocks[ls_i])
       IN /\ ls_results' = st.results
          /\ ls_pc' = IF st.raised THEN "raised" ELSE "loop"
    /\ ls_i' = ls_i + 1
    /\ UNCHANGED <<ls_blocks, mainVars, normVars, companyVars, blockVars>>

\* return results
ListReturn ==
    /\ ls_pc = "loop"
    /\ ls_i > Len(ls_blocks)
    /\ ls_pc' = "returned"
    /\ UNCHANGED <<ls_blocks, ls_i, ls_results, mainVars, normVars, companyVars, blockVars>>

NextList == ListIterate \/ ListReturn

SpecList == InitList /\ [][NextList]_vars

\* ============================ parse_article_block, with and without an element
Elements == {"title_element", "link_element", "author_element", "time_element",
             "views", "votes", "comments", "bookmarks"}

IsoStamp == <<"2", "0", "2", "4", "-", "0", "3", "-", "0", "5", "T",
              "1", "4", ":", "3", "0", ":", "0", "0", "Z">>

NotADate == <<"n", "o", "t", "-", "a", "-", "d", "a", "t", "e">>

BadClock == <<"2", "0", "2", "4", "-", "0", "3", "-", "0", "5", "T", "9", "9", ":", "3", "0", "x">>

TitleOpts == {[present |-> FALSE, span |-> FALSE, text |-> <<>>],
              [present |-> TRUE, span |-> FALSE, text |-> <<>>],
              [present |-> TRUE, span |-> TRUE, text |-> <<" ", "T", "i", "t", "l", "e", NBSP>>]}

LinkOpts == {[present |-> FALSE, href |-> <<>>],
             [present |-> TRUE, href |-> <<"/", "ru", "/", "a", "1">>]}

AuthorOpts == {[present |-> FALSE, a_user |-> FALSE, text |-> <<>>],
               [present |-> TRUE, a_user |-> TRUE, text |-> <<" ", "b", "o", "b">>]}

TimeOpts == {[present |-> FALSE, datetime |-> <<>>],
             [present |-> TRUE, datetime |-> IsoStamp],
             [present |-> TRUE, datetime |-> NotADate],
             [present |-> TRUE, datetime |-> BadClock]}

ViewsOpts == {[present |-> FALSE, vv |-> FALSE, title |-> <<>>, text |-> <<>>],
              [present |-> TRUE, vv |-> TRUE, title |-> <<"1", NBSP, "2", "3", "4">>,
               text |-> <<"1", ".", "2", "K">>],
              [present |-> TRUE, vv |-> TRUE, title |-> <<>>, text |-> <<" ", "5", "K", " ">>]}

VotesOpts == {[present |-> FALSE, vm |-> FALSE, text |-> <<>>],
              [present |-> TRUE, vm |-> TRUE, text |-> <<" ", "+", "5">>]}

CommentsOpts == {[present |-> FALSE, span_val |-> FALSE, text |-> <<>>],
                 [present |-> TRUE, span_val |-> TRUE, text |-> <<" ", "7", " ">>]}

BookmarksOpts == {[present |-> FALSE, counter_span |-> FALSE, text |-> <<>>, title |-> <<>>],
                  [present |-> TRUE, counter_span |-> TRUE, text |-> <<"3">>, title |-> <<"9">>],
                  [present |-> TRUE, counter_span |-> TRUE, text |-> <<>>,
                   title |-> <<" ", "4", NBSP, "0">>]}

Containers ==
    [malformed : {FALSE}, title_element : TitleOpts, link_element : LinkOpts,
     author_element : AuthorOpts, time_element : TimeOpts, views : ViewsOpts,
     votes : VotesOpts, comments : CommentsOpts, bookmarks : BookmarksOpts]

\* The container without the element e
Without(b, e) ==
    CASE e = "title_element" -> [b EXCEPT !.title_element = [present |-> FALSE, span |-> FALSE, text |-> <<>>]]
      [] e = "link_element" -> [b EXCEPT !.link_element = [present |-> FALSE, href |-> <<>>]]
      [] e = "author_element" -> [b EXCEPT !.author_element = [present |-> FALSE, a_user |-> FALSE, text |-> <<>>]]
      [] e = "time_element" -> [b EXCEPT !.time_element = [present |-> FALSE, datetime |-> <<>>]]
      [] e = "views" -> [b EXCEPT !.views = [present |-> FALSE, vv |-> FALSE, title |-> <<>>, text |-> <<>>]]
      [] e = "votes" -> [b EXCEPT !.votes = [present |-> FALSE, vm |-> FALSE, text |-> <<>>]]
      [] e = "comments" -> [b EXCEPT !.comments = [present |-> FALSE, span_val |-> FALSE, text |-> <<>>]]
      [] e = "bookmarks" -> [b EXCEPT !.bookmarks = [present |-> FALSE, counter_span |-> FALSE,
                                                     text |-> <<>>, title |-> <<>>]]

InitBlock ==
    /\ bk_block \in Containers
    /\ bk_pc = "input" /\ bk_dropped = "none"
    /\ bk_before = NoRecord /\ bk_record = NoRecord
    /\ MainIdle /\ NormIdle /\ CompanyIdle /\ ListIdle

\* parse_article_block on the container as served
ParseBlock ==
    /\ bk_pc = "input"
    /\ bk_before' = parse_article_block(bk_block)
    /\ bk_pc' = "parsed"
    /\ UNCHANGED <<bk_block, bk_dropped, bk_record, mainVars, normVars, companyVars, listVars>>

\* The same container served without one of its elements
DropElement(e) ==
    /\ bk_pc = "parsed"
    /\ bk_block[e].present
    /\ bk_block' = Without(bk_block, e)
    /\ bk_dropped' = e
    /\ bk_pc' = "dropped"
    /\ UNCHANGED <<bk_before, bk_record, mainVars, normVars, companyVars, listVars>>

\* parse_article_block on the container that lacks the element
ParseDegraded ==
    /\ bk_pc = "dropped"
    /\ bk_record' = parse_article_block(bk_block)
    /\ bk_pc' = "done"
    /\ UNCHANGED <<bk_block, bk_dropped, bk_before, mainVars, normVars, companyVars, listVars>>

NextBlock == ParseBlock \/ (\E e \in Elements : DropElement(e)) \/ ParseDegraded

SpecBlock == InitBlock /\ [][NextBlock]_vars

\* =============================================================== claims
WellFormed(b) == ~b.malformed

\* The records of the containers of a page that can be processed, in
\* document order
GoodRecords(blocks) ==
    LET g == SelectSeq(blocks, WellFormed)
    IN [k \in 1..Len(g) |-> parse_article_block(g[k])]

\* The page a record was served on, read from its link BASE_URL/a<page>-<position>
PageOfRow(r) == DecVal(SubSeq(r.url, Len(BASE_URL) + 3, Find(r.url, "-") - 1))

\* The network served page p: a readable response that is not an HTTP error
Served(p) ==
    /\ outcome[p].kind = "response" /\ outcome[p].status < 400
    /\ outcome[p].readable /\ ~outcome[p].text.empty

Contribution(p) == IF Served(p) THEN GoodRecords(outcome[p].text.blocks) ELSE <<>>

RECURSIVE RowsFromPage(_)
RowsFromPage(p) == IF p > last_page THEN <<>> ELSE Contribution(p) \o RowsFromPage(p + 1)

Returned == pc \in {"returned", "saved"}

\* C1: when page 1 is fetched and the last page is N > 1, the returned
\* records are ordered by page number ascending and are the concatenation of
\* the pages' records in page order, a function of what each page served and
\* not of the order in which the fetches of pages 2..N completed.
C1_PageOrder ==
    (Returned /\ Truthy(first_page_html) /\ last_page > 1) =>
        /\ \A i, j \in 1..Len(returned_rows) :
              i < j => PageOfRow(returned_rows[i]) <= PageOfRow(returned_rows[j])
        /\ returned_rows = RowsFromPage(1)

\* C1 witness: pages 2 and 3 completed in the reverse order, both gave records
C1_Witness ==
    /\ Returned /\ last_page = 3
    /\ completed = <<3, 2>>
    /\ Served(2) /\ Served(3)
    /\ \E i, j \in 1..Len(returned_rows) :
          PageOfRow(returned_rows[i]) = 2 /\ PageOfRow(returned_rows[j]) = 3

RowsOfPage(rs, p) == SelectSeq(rs, LAMBDA r : PageOfRow(r) = p)

\* C2: when page 1 succeeds and some of the fetches of pages 2..N fail, the
\* scrape returns page 1's records followed by those of the pages that
\* succeeded: a failed page contributes no record, every page whose fetch
\* returned text contributes exactly its records, no exception leaves the
\* scrape, and every sibling fetch has resolved and every fetched page has
\* been extracted.
C2_FailedPagesContributeNothing ==
    /\ pc # "crashed"
    /\ (Returned /\ Truthy(first_page_html)) =>
          /\ RowsOfPage(returned_rows, 1) = GoodRecords(outcome[1].text.blocks)
          /\ \A p \in 2..last_page :
                /\ result[p].kind \in {"None", "text"}
                /\ result[p].kind = "None" => RowsOfPage(returned_rows, p) = <<>>
                /\ result[p].kind = "text" =>
                      RowsOfPage(returned_rows, p) = GoodRecords(outcome[p].text.blocks)
                /\ Truthy(result[p]) => \E k \in 1..Len(extracted) : extracted[k] = p
          /\ \A k \in 1..Len(returned_rows) : PageOfRow(returned_rows[k]) <= last_page

\* C2 witness: three pages, page 2 failed, pages 1 and 3 gave their records
C2_Witness ==
    /\ Returned /\ last_page = 3
    /\ result[2] = NoneResult
    /\ returned_rows = GoodRecords(outcome[1].text.blocks) \o GoodRecords(outcome[3].text.blocks)
    /\ RowsOfPage(returned_rows, 1) # <<>> /\ RowsOfPage(returned_rows, 3) # <<>>

\* C3: if the fetch of page 1 fails the scrape returns the empty sequence and
\* ends there: no pagination detection, no task, no request for a page 2..N,
\* no extraction.
C3_FirstPageFailureIsTerminal ==
    first_page_html = NoneResult =>
        /\ pc \in {"check_first", "returned", "saved"}
        /\ last_page = 0 /\ tasks = <<>> /\ started = {}
        /\ requests = <<articles_url>>
        /\ extracted = <<>> /\ rows = <<>>
        /\ Returned => returned_rows = <<>>
        /\ pc = "saved" => report.rows = <<>>

\* C3 witness: page 1 timed out and the empty report was saved
C3_Witness ==
    /\ pc = "saved" /\ outcome[1] = Timeout /\ first_page_html = NoneResult
    /\ report.saved /\ report.rows = <<>>

Resolved(p) == outcome[p] # Pending

\* C4 as stated: the fetcher never raises, returns the failure result for a
\* network error, a timeout and every status that is not 2xx, and returns
\* markup only for a 2xx response.
C4_Non2xxFails ==
    \A p \in 1..MaxPages : Resolved(p) =>
        /\ result[p].kind \in {"None", "text"}
        /\ (outcome[p].kind \in {"neterr", "timeout"} \/ outcome[p].status \notin 200..299)
              => result[p] = NoneResult
        /\ result[p].kind = "text" => outcome[p].status \in 200..299

\* C4 amended: the fetcher never raises, returns the failure result for a
\* network error, a timeout and every status of 400 or more, and returns
\* markup only for a response whose status is below 400.
C4_ErrorStatusFails ==
    \A p \in 1..MaxPages : Resolved(p) =>
        /\ result[p].kind \in {"None", "text"}
        /\ (outcome[p].kind \in {"neterr", "timeout"} \/ outcome[p].status >= 400)
              => result[p] = NoneResult
        /\ result[p].kind = "text" =>
              /\ outcome[p].kind = "response" /\ outcome[p].status < 400
              /\ result[p].text = outcome[p].text

\* C4 witness: one scrape met a 404, a timeout and a served page
C4_Witness ==
    /\ pc = "saved" /\ last_page = 3
    /\ outcome[2].kind = "response" /\ outcome[2].status = 404 /\ result[2] = NoneResult
    /\ outcome[3] = Timeout /\ result[3] = NoneResult
    /\ outcome[1].status = 200 /\ result[1].kind = "text"

\* C5: normalizing the empty link fails with the invalid-input error, and
\* main_async then ends before any network activity: no request is issued
\* and no scrape is started.
C5_EmptyLinkAborts ==
    /\ link = <<>> => pc \in {"main", "norm_failed"}
    /\ pc = "norm_failed" =>
          /\ link = <<>>
          /\ requests = <<>> /\ articles_url = Unset
          /\ \A p \in 1..MaxPages : outcome[p] = Pending /\ result[p] = NoResult
          /\ ~report.saved

\* C5 witness: the empty link was given and normalization has failed
C5_Witness == link = <<>> /\ pc = "norm_failed"

\* C6: normalize is idempotent: every non-empty link is accepted, its
\* normalized form is accepted again, and normalizing that form returns it
\* unchanged.
C6_Idempotent ==
    /\ nz_pc = "error" => raw_url = <<>>
    /\ nz_pc = "twice" => twice = once

\* C6 witness: a relative link with a doubled separator, a 'companies' second
\* segment and trailing white space was normalized twice
C6_Witness ==
    /\ nz_pc = "twice"
    /\ raw_url = <<"ru", "/", "/", "companies", "/", "ru", " ">>
    /\ once = <<"https", ":", "/", "/", "habr.com", "/", "ru", "/", "companies", "/", "ru",
                "/", "articles", "/">>

EndsWith(s, t) == Len(s) >= Len(t) /\ SubSeq(s, Len(s) - Len(t) + 1, Len(s)) = t

\* C7: for every language segment and company slug the profile address and
\* the articles address normalize to the same canonical address, which ends
\* in /<lang>/companies/<slug>/articles/.
C7_ProfileAndArticlesAgree ==
    (co_profile # Unset /\ co_articles # Unset) =>
        /\ co_profile = co_articles
        /\ EndsWith(co_profile, <<"/", co_lang, "/", "companies", "/", co_slug, "/",
                                  "articles", "/">>)

\* C8: a container whose processing raises is skipped and gives no record,
\* every other container of the page is extracted in document order, and the
\* extraction of the page never raises.
C8_BadContainerSkipped ==
    /\ ls_pc # "raised"
    /\ ls_pc \in {"loop", "returned"} =>
          ls_results = GoodRecords(SubSeq(ls_blocks, 1, ls_i - 1))
    /\ ls_pc = "returned" => ls_results = GoodRecords(ls_blocks)

\* C8 witness: a page of three containers, the second one raising
C8_Witness ==
    /\ ls_pc = "returned" /\ Len(ls_blocks) = 3
    /\ ~ls_blocks[1].malformed /\ ls_blocks[2].malformed /\ ~ls_blocks[3].malformed
    /\ ls_results = <<parse_article_block(ls_blocks[1]), parse_article_block(ls_blocks[3])>>

\* The fields read from an element
FieldsOf(e) ==
    CASE e = "title_element" -> {"title"}
      [] e = "link_element" -> {"url"}
      [] e = "author_element" -> {"author"}
      [] e = "time_element" -> {"date", "time"}
      [] e = "views" -> {"views"}
      [] e = "votes" -> {"votes"}
      [] e = "comments" -> {"comments"}
      [] e = "bookmarks" -> {"bookmarks"}
      [] OTHER -> {}

\* C9 as stated: when the element of one field is missing, that field is the
\* sentinel and every other field keeps the value it has with the element
\* present.
C9_OnlyThatFieldChanges ==
    bk_pc = "done" =>
        \A f \in FieldsOf(bk_dropped) :
            /\ bk_record[f] = NA
            /\ \A g \in Fields \ {f} : bk_record[g] = bk_before[g]

\* C9 amended: when one element is missing, the fields read from it (date and
\* time are both read from the time element) are the sentinel and every
\* other field keeps the value it has with the element present.
C9_FieldIndependence ==
    bk_pc = "done" =>
        /\ \A f \in FieldsOf(bk_dropped) : bk_record[f] = NA
        /\ \A g \in Fields \ FieldsOf(bk_dropped) : bk_record[g] = bk_before[g]

\* C9 witness: the views counter was removed from a container with every
\* other element present
C9_Witness ==
    /\ bk_pc = "done" /\ bk_dropped = "views"
    /\ bk_before.views = <<"1", " ", "2", "3", "4">> /\ bk_record.views = NA
    /\ \A g \in Fields \ {"views"} : bk_record[g] # NA /\ bk_record[g] = bk_before[g]

\* C10 as stated: whenever the scrape returns the empty sequence the fetch of
\* page 1 failed (it gave the failure result or no markup at all).
C10_EmptyMeansFirstPageFailed ==
    (Returned /\ returned_rows = <<>>) => ~Truthy(first_page_html)

\* C10 amended: whenever the scrape returns the empty sequence, page 1 was
\* unreachable (its fetch failed or gave an empty body) or no fetched page
\* held a container that could be processed.
C10_EmptyMeansNothingExtracted ==
    (Returned /\ returned_rows = <<>>) =>
        \/ ~Served(1)
        \/ \A p \in 1..last_page : Contribution(p) = <<>>

\* C10 witness: page 1 and page 2 were served without a usable container
C10_Witness ==
    /\ Returned /\ returned_rows = <<>>
    /\ Served(1) /\ last_page = 2 /\ Served(2)

\* C11: in a scrape with N > 1 pages every fetch coroutine of pages 2..N is
\* created before any of them runs, and no page 2..N is extracted, and no
\* record of it appended, until every one of those fetches has resolved.
C11_JoinBarrier ==
    /\ started # {} => tasks = [k \in 1..(last_page - 1) |-> k + 1]
    /\ pc = "gather" =>
          /\ pages_html = <<>> /\ extracted = <<1>>
          /\ \A k \in 1..Len(rows) : PageOfRow(rows[k]) = 1
    /\ (\/ pc \in {"aggregate", "sleep"}
        \/ pages_html # <<>>
        \/ \E k \in 1..Len(extracted) : extracted[k] >= 2
        \/ \E k \in 1..Len(rows) : PageOfRow(rows[k]) >= 2) =>
          /\ AllResolved
          /\ started = 2..last_page
          /\ Len(completed) = last_page - 1

\* C11 witness: page 2 is being extracted after pages 3 and 2 resolved, in
\* that order
C11_Witness ==
    /\ pc = "sleep" /\ idx = 1 /\ last_page = 3
    /\ completed = <<3, 2>>
    /\ extracted = <<1, 2>>
    /\ \E k \in 1..Len(rows) : PageOfRow(rows[k]) = 2

\* The addresses one scrape requests when page 1 announces n pages
ExpectedRequests(n) ==
    <<articles_url>> \o [k \in 1..(IF n > 1 THEN n - 1 ELSE 0) |-> PageUrl(articles_url, k + 1)]

\* C12: no address is requested twice in one scrape; once the fetches of a
\* scrape whose page 1 succeeded with last page N are over, the requests are
\* exactly the listing address and "<listing>page<k>/" for k in 2..N, each
\* once (the listing address alone when N <= 1), failed fetches included;
\* a scrape whose page 1 failed requested the listing address alone.
C12_ExactRequests ==
    /\ \A j, k \in 1..Len(requests) : requests[j] = requests[k] => j = k
    /\ \A k \in 1..Len(requests) : requests[k] = ExpectedRequests(k)[k]
    /\ (pc \in {"aggregate", "sleep", "returned", "saved"} /\ Truthy(first_page_html)) =>
          requests = ExpectedRequests(last_page)
    /\ (Returned /\ ~Truthy(first_page_html)) => requests = <<articles_url>>

\* C12 witness: a finished scrape of three pages in which the fetch of page 2
\* failed and page 3 was served
C12_Witness ==
    /\ Returned /\ Truthy(first_page_html) /\ last_page = 3
    /\ result[2] = NoneResult /\ Truthy(result[3])
    /\ Len(requests) = 3
    /\ requests[2] = articles_url \o <<"page", "2", "/">>

RECURSIVE RowsUpTo(_)
RowsUpTo(q) == IF q < 1 THEN <<>> ELSE RowsUpTo(q - 1) \o Contribution(q)

\* C13 as stated: the number of pauses of a finished scrape equals the number
\* of pages 2..N whose fetch succeeded.
C13_PausePerSuccessfulPage ==
    (Returned /\ Truthy(first_page_html)) =>
        pauses = Cardinality({p \in 2..last_page : result[p] # NoneResult})

\* C13: one pause follows every page 2..N of the gathered results, whether
\* its fetch succeeded or failed, so a finished scrape made N - 1 pauses (none
\* when N <= 1 or page 1 failed); before and after each pause the rows are
\* exactly what the pages handled so far served.
C13_PausePerPage ==
    /\ Returned =>
          pauses = IF Truthy(first_page_html) /\ last_page > 1 THEN last_page - 1 ELSE 0
    /\ pc = "sleep" => pauses = idx - 1 /\ rows = RowsUpTo(idx + 1)
    /\ pc = "aggregate" => pauses = idx - 1 /\ rows = RowsUpTo(idx)
    /\ Returned => returned_rows = RowsUpTo(last_page)

\* C13 witness: a finished scrape of three pages paused twice although only
\* the fetch of page 3 succeeded
C13_Witness ==
    /\ Returned /\ Truthy(first_page_html) /\ last_page = 3
    /\ result[2] = NoneResult /\ Served(3)
    /\ pauses = 2
    /\ extracted = <<1, 3>>

====
